---- MODULE Spec2Model ----
(***************************************************************************)
(* Model of src/Szerver.py: a lobby / invite / room server for two-player  *)
(* 8-ball pool whose referee (evaluate_shot) judges client-reported shots. *)
(*                                                                         *)
(* Three specifications share the variables:                               *)
(*   SpecGame  one started room and its two players; game messages         *)
(*             (shot_end, place_cue) arrive on the wire and are handled.   *)
(*   Spec      the lobby: connection tasks of ws_main interleaving at      *)
(*             their await points (hello/resume, invites with expiry,      *)
(*             rooms, disconnects, cleanup).                               *)
(*   SpecRooms the lobby's steps from a state with a started room, so that *)
(*             a second room is made while the first is in the table.      *)
(***************************************************************************)
EXTENDS Integers, Sequences, FiniteSets, TLC

VARIABLES
    users,    \* users:   userId -> [name, ws, status, roomId, resume]
    rooms,    \* rooms:   roomId -> room state
    invites,  \* invites: inviteId -> [from, to, created, expires, status]
    conn,     \* connection -> "new" | "open" | "closed"
    task,     \* connection -> the position and locals of its ws_main task
    clock,    \* the value now() returns
    wire,     \* the game message received and about to be handled
    sent,     \* the messages sent by the last step: a set of <<connection, message>>
    issued    \* the invite and room ids secrets.token_hex has handed out

vars == <<users, rooms, invites, conn, task, clock, wire, sent, issued>>

----------------------------------------------------------------------------
(* Values *)

None == "None"
\* first_hit is null when the cue ball struck nothing
NoBall == 0 - 1
\* "balls" missing or empty in a shot_end message: the room's table is kept
NoTable == << >>
NoMsg == [t |-> "none"]

INVITE_TTL == 30

SOLIDS == 1..7
STRIPES == 9..15
BallNums == 0..15

LW == 1280
LH == 720
MARGIN == 40
CUSHION == 34
INNER_W == LW - 2 * (MARGIN + CUSHION)
INNER_H == LH - 2 * (MARGIN + CUSHION)
TABLE_X == MARGIN + CUSHION
TABLE_Y == MARGIN + CUSHION
RADIUS == 14

----------------------------------------------------------------------------
(* Bounds of the model *)

\* a room's shot counters are not advanced past this many shots in all
MaxShots == 2

UserIds == {"u1", "u2", "u3"}
RoomIds == {"r1"}
InviteIds == {"i1"}
Conns == {"c1", "c2"}

\* the balls a modelled client reports as potted
PotBalls == {0, 1, 8, 9}
\* the object balls a modelled client may report alive
TableBalls == {1, 9}
\* the first contacts a modelled client reports
FirstHits == {NoBall, 1, 8, 9}

----------------------------------------------------------------------------
(* The rack: make_new_balls.  Coordinates are floats in the program; the   *)
(* model keeps their integer parts.  random.shuffle is a choice among the  *)
(* arrangements in Racks.                                                  *)

\* rack_positions before the shuffle: row r, slot i
RackSlot(k) ==
    LET r == CHOOSE rr \in 0..4 : (rr * (rr + 1)) \div 2 <= k - 1 /\ k - 1 < ((rr + 1) * (rr + 2)) \div 2
        i == (k - 1) - (r * (r + 1)) \div 2
        start_x == TABLE_X + (INNER_W * 65) \div 100
        dx == (RADIUS * 2 * 866) \div 1000
    IN  [x |-> start_x + dx * r,
         y |-> TABLE_Y + INNER_H \div 2 - r * RADIUS + i * 2 * RADIUS]

\* the slot each ball number gets: the shuffles the model draws from
Racks == { [n \in 1..15 |-> n] }

make_new_balls(rack) ==
    [n \in BallNums |->
        IF n = 0
        THEN [x |-> TABLE_X + (INNER_W * 22) \div 100, y |-> TABLE_Y + INNER_H \div 2, alive |-> TRUE]
        ELSE [x |-> RackSlot(rack[n]).x, y |-> RackSlot(rack[n]).y, alive |-> TRUE]]

\* a placement check that looks at the table's edge only
valid_cue_place_edge_only(x, y, balls) ==
    /\ TABLE_X + RADIUS <= x /\ x <= TABLE_X + INNER_W - RADIUS
    /\ TABLE_Y + RADIUS <= y /\ y <= TABLE_Y + INNER_H - RADIUS

valid_cue_place(x, y, balls) ==
    LET minx == TABLE_X + RADIUS
        maxx == TABLE_X + INNER_W - RADIUS
        miny == TABLE_Y + RADIUS
        maxy == TABLE_Y + INNER_H - RADIUS
    IN  /\ minx <= x /\ x <= maxx /\ miny <= y /\ y <= maxy
        /\ \A k \in DOMAIN balls :
              (k = 0 \/ ~balls[k].alive)
              \/ ~((balls[k].x - x) * (balls[k].x - x) + (balls[k].y - y) * (balls[k].y - y)
                     < (2 * RADIUS + 1) * (2 * RADIUS + 1))

----------------------------------------------------------------------------
(* The referee: evaluate_shot.  A shot is                                  *)
(*   [first_hit, any_rail, potted, balls]                                  *)
(* with potted a set of ball numbers (the code only tests membership) and  *)
(* balls a table BallNums -> [x, y, alive], or NoTable.  The float()/bool()*)
(* pass over the table (lines 143-147) leaves a well-typed table as it is. *)

Opponent(room, shooter) ==
    IF room.players[1] = shooter THEN room.players[2] ELSE room.players[1]

\* line 141 (and 375): the reported table, or the room's when none is reported
ShotBalls(room, shot) ==
    IF shot.balls = NoTable THEN room.balls ELSE shot.balls

\* a referee that leaves a potted cue ball as the client reported it
ScratchBallsAsReported(balls, potted) == balls

\* lines 151-153: a potted cue ball is marked alive again
ScratchBalls(balls, potted) ==
    IF 0 \in potted THEN [balls EXCEPT ![0].alive = TRUE] ELSE balls

\* lines 156-167: the reasons the first contact adds
FirstHitReasons(g, first_hit) ==
    IF first_hit = NoBall
    THEN << "no_hit" >>
    ELSE IF g # None
         THEN (IF g = "SOLID" /\ (first_hit \in STRIPES \/ first_hit = 8)
               THEN << "first_not_solid" >> ELSE << >>)
              \o
              (IF g = "STRIPE" /\ (first_hit \in SOLIDS \/ first_hit = 8)
               THEN << "first_not_stripe" >> ELSE << >>)
         ELSE IF first_hit = 8 THEN << "first_eight_unassigned" >> ELSE << >>

\* lines 149-172: the reasons list, in the order the code appends
Reasons(room, shooter, shot) ==
    (IF 0 \in shot.potted THEN << "scratch" >> ELSE << >>)
    \o FirstHitReasons(room.groups[shooter], shot.first_hit)
    \o (IF shot.potted = {} /\ ~shot.any_rail THEN << "no_pot_no_rail" >> ELSE << >>)

\* lines 149-172: the foul flag, set wherever a reason is appended
Foul(room, shooter, shot) ==
    \/ 0 \in shot.potted
    \/ FirstHitReasons(room.groups[shooter], shot.first_hit) # << >>
    \/ (shot.potted = {} /\ ~shot.any_rail)

\* line 177
AliveNums(balls) == { n \in DOMAIN balls : balls[n].alive }

\* line 178
MyNeed(myg) ==
    IF myg # None THEN (IF myg = "SOLID" THEN SOLIDS ELSE STRIPES) ELSE {}

\* a referee that forgives a foul on the shot that pots the eight
EightLosesNoFoul(myg, balls, foul) ==
    myg = None \/ (MyNeed(myg) \cap AliveNums(balls)) # {}

\* line 180: the shooter loses on the eight
EightLoses(myg, balls, foul) ==
    myg = None \/ (MyNeed(myg) \cap AliveNums(balls)) # {} \/ foul

\* lines 175-193
EightBall(room, shooter, shot, balls, foul) ==
    LET opponent == Opponent(room, shooter) IN
    IF EightLoses(room.groups[shooter], balls, foul)
    THEN [room EXCEPT !.winner = opponent,
                      !.msg = << "bad_eight", shooter, opponent >>,
                      !.turn = None,
                      !.balls = balls]
    ELSE [room EXCEPT !.winner = shooter,
                      !.msg = << "good_eight", shooter >>,
                      !.turn = None,
                      !.balls = balls]

\* line 170
PottedNon8(potted) == { n \in potted : n \notin {0, 8} }

\* a referee that assigns a group to the shooter only
AssignGroupsShooterOnly(room, shooter, potted) ==
    IF room.groups[shooter] = None /\ PottedNon8(potted) \cap SOLIDS # {}
    THEN [room.groups EXCEPT ![shooter] = "SOLID"]
    ELSE room.groups

\* a referee that gives the shooter the group of the ball they did not pot
AssignGroupsSwapped(room, shooter, potted) ==
    LET opponent == Opponent(room, shooter)
        potted_solid == PottedNon8(potted) \cap SOLIDS
        potted_stripe == PottedNon8(potted) \cap STRIPES
    IN  IF room.groups[shooter] = None /\ room.groups[opponent] = None
        THEN IF potted_solid # {} /\ potted_stripe = {}
             THEN [room.groups EXCEPT ![shooter] = "STRIPE", ![opponent] = "SOLID"]
             ELSE IF potted_stripe # {} /\ potted_solid = {}
                  THEN [room.groups EXCEPT ![shooter] = "SOLID", ![opponent] = "STRIPE"]
                  ELSE room.groups
        ELSE room.groups

\* lines 196-210: the groups after the assignment step
AssignGroups(room, shooter, potted) ==
    LET opponent == Opponent(room, shooter)
        potted_solid == PottedNon8(potted) \cap SOLIDS
        potted_stripe == PottedNon8(potted) \cap STRIPES
    IN  IF room.groups[shooter] = None /\ room.groups[opponent] = None
        THEN IF potted_solid # {} /\ potted_stripe = {}
             THEN [room.groups EXCEPT ![shooter] = "SOLID", ![opponent] = "STRIPE"]
             ELSE IF potted_stripe # {} /\ potted_solid = {}
                  THEN [room.groups EXCEPT ![shooter] = "STRIPE", ![opponent] = "SOLID"]
                  ELSE room.groups
        ELSE room.groups

\* a referee that lets the shooter go on after potting any object ball
ContAnyBall(myg, potted) == PottedNon8(potted) # {}

\* lines 219-225: the shooter goes on
Cont(myg, potted) ==
    IF myg = None
    THEN PottedNon8(potted) # {}
    ELSE PottedNon8(potted) \cap (IF myg = "SOLID" THEN SOLIDS ELSE STRIPES) # {}

\* lines 212-234: turn and ball-in-hand; every branch overwrites the message
\* the assignment step wrote
TurnStep(room, shooter, shot, balls, foul, reasons) ==
    LET opponent == Opponent(room, shooter) IN
    IF foul
    THEN [room EXCEPT !.ball_in_hand[opponent] = TRUE,
                      !.turn = opponent,
                      !.msg = << "foul", opponent >> \o reasons,
                      !.balls = balls]
    ELSE IF Cont(room.groups[shooter], shot.potted)
         THEN [room EXCEPT !.msg = << "again", shooter >>,
                           !.turn = shooter,
                           !.balls = balls]
         ELSE [room EXCEPT !.turn = opponent,
                           !.msg = << "pass", opponent >>,
                           !.balls = balls]

evaluate_shot(room, shooter, shot) ==
    LET balls == ScratchBalls(ShotBalls(room, shot), shot.potted)
        foul == Foul(room, shooter, shot)
        reasons == Reasons(room, shooter, shot)
    IN  IF 8 \in shot.potted
        THEN EightBall(room, shooter, shot, balls, foul)
        ELSE TurnStep([room EXCEPT !.groups = AssignGroups(room, shooter, shot.potted)],
                      shooter, shot, balls, foul, reasons)

\* lines 236-244
start_new_game(room, rack) ==
    [room EXCEPT !.balls = make_new_balls(rack),
                 !.turn = room.players[1],
                 !.groups = [p \in {room.players[1], room.players[2]} |-> None],
                 !.ball_in_hand = [p \in {room.players[1], room.players[2]} |-> FALSE],
                 !.winner = None,
                 !.shots = [p \in {room.players[1], room.players[2]} |-> 0],
                 !.msg = << "start", room.players[1] >>,
                 !.started = TRUE]

\* lines 322-326: the room as handle_invite_answer first stores it; the game
\* fields are absent until start_new_game
NewRoom(us, p1, p2) ==
    [players |-> << p1, p2 >>,
     names |-> [p \in {p1, p2} |-> us[p].name],
     started |-> FALSE,
     balls |-> NoTable,
     turn |-> None,
     groups |-> << >>,
     ball_in_hand |-> << >>,
     winner |-> None,
     shots |-> << >>,
     msg |-> << >>]

----------------------------------------------------------------------------
(* Shared state helpers *)

\* the order of the users dict: ids are handed out in this order
UserOrder == << "u1", "u2", "u3" >>

\* ws_main lines 411-413: the first user bound to this connection; the local
\* user_id keeps its earlier value when none is
LookupUser(c, prev) ==
    LET hits == { i \in 1..Len(UserOrder) :
                    UserOrder[i] \in DOMAIN users /\ users[UserOrder[i]].ws = c }
    IN  IF hits = {} THEN prev
        ELSE UserOrder[CHOOSE i \in hits : \A j \in hits : i <= j]

\* safe_send: a message reaches an open connection, and is dropped otherwise
Send(c, m) == IF conn[c] = "open" THEN { << c, m >> } ELSE {}

\* broadcast_room's receivers, lines 261-264 (the payload is the room's state)
RoomCast(rs, us, rid) ==
    IF rid \notin DOMAIN rs THEN {}
    ELSE UNION { IF rs[rid].players[i] \in DOMAIN us /\ us[rs[rid].players[i]].ws # None
                 THEN Send(us[rs[rid].players[i]].ws, [t |-> "game_state", roomId |-> rid])
                 ELSE {} : i \in 1..2 }

\* cleanup lines 45-52 at time tnow: the invites left
LiveInvites(inv, tnow) ==
    [i \in { j \in DOMAIN inv : ~(inv[j].status = "sent" /\ tnow > inv[j].expires) } |-> inv[i]]

\* a cleanup that drops a room as soon as one of its players is gone from it
LiveRoomsBothIn(rs, us) ==
    [r \in { q \in DOMAIN rs :
               \A i \in 1..2 : rs[q].players[i] \in DOMAIN us
                                   /\ us[rs[q].players[i]].roomId = q } |-> rs[r]]

\* cleanup lines 54-57: the rooms left
LiveRooms(rs, us) ==
    [r \in { q \in DOMAIN rs :
               ~(\A i \in 1..2 : rs[q].players[i] \notin DOMAIN us
                                   \/ us[rs[q].players[i]].roomId # q) } |-> rs[r]]

----------------------------------------------------------------------------
(* Game messages: handle_game_msg *)

\* the balls a modelled client reports alive after a shot: the cue ball and the
\* eight unless potted in this shot, the other object balls as the client says
Reports(potted) ==
    { A \cup ({0, 8} \ potted) : A \in SUBSET TableBalls }

\* the "balls" of a shot_end message: NoTable, or a table with every ball where
\* the room has it and alive as reported
ReportedBalls(room, data) ==
    IF ~data.table THEN NoTable
    ELSE [n \in BallNums |->
            [x |-> room.balls[n].x, y |-> room.balls[n].y, alive |-> n \in data.alive]]

\* the points a modelled client asks to place the cue ball at: the table's
\* centre, a point on the edge of the allowed rectangle, a point just left of
\* it, and points 2*RADIUS+1 and 2*RADIUS away from rack slot 8
PlacePoints ==
    { << TABLE_X + INNER_W \div 2, TABLE_Y + INNER_H \div 2 >>,
      << TABLE_X + RADIUS, TABLE_Y + INNER_H \div 2 >>,
      << TABLE_X + RADIUS - 1, TABLE_Y + INNER_H \div 2 >>,
      << RackSlot(8).x - (2 * RADIUS + 1), RackSlot(8).y >>,
      << RackSlot(8).x - 2 * RADIUS, RackSlot(8).y >> }

GameMsg(c, rid, t, first_hit, any_rail, potted, table, alive, pt) ==
    [t |-> t, conn |-> c, roomId |-> rid, first_hit |-> first_hit, any_rail |-> any_rail,
     potted |-> potted, table |-> table, alive |-> alive, x |-> pt[1], y |-> pt[2]]

\* a handler that judges a shot whoever sends it, as long as nobody has won
shot_end_any_sender(room, sender_id, data) ==
    IF room.winner # None
    THEN room
    ELSE evaluate_shot([room EXCEPT !.shots[sender_id] = @ + 1], sender_id,
                       [first_hit |-> data.first_hit, any_rail |-> data.any_rail,
                        potted |-> data.potted, balls |-> ReportedBalls(room, data)])

\* lines 365-377 on the room: the shot is dropped unless it is the sender's turn
\* and nobody has won
shot_end(room, sender_id, data) ==
    IF room.turn # sender_id \/ room.winner # None
    THEN room
    ELSE evaluate_shot([room EXCEPT !.shots[sender_id] = @ + 1], sender_id,
                       [first_hit |-> data.first_hit, any_rail |-> data.any_rail,
                        potted |-> data.potted, balls |-> ReportedBalls(room, data)])

\* line 354
PlaceOk(room, sender_id, data) ==
    room.ball_in_hand[sender_id] /\ valid_cue_place(data.x, data.y, room.balls)

\* lines 351-357 on the room
place_cue(room, sender_id, data) ==
    IF PlaceOk(room, sender_id, data)
    THEN [room EXCEPT !.balls[0] = [x |-> data.x, y |-> data.y, alive |-> TRUE],
                      !.ball_in_hand[sender_id] = FALSE,
                      !.msg = << "placed", sender_id >>]
    ELSE room

\* a shot_end message arrives on connection c (ws.receive_text returns it); a
\* shot that will be dropped comes with no table or with every table ball alive
RecvShotEnd(c) ==
    /\ wire = NoMsg
    /\ conn[c] = "open"
    /\ task[c].pc = "recv"
    /\ \E rid \in DOMAIN rooms :
         /\ rooms[rid].started
         /\ LET u == LookupUser(c, task[c].user_id) IN
               (rooms[rid].turn = u /\ rooms[rid].winner = None)
                  => rooms[rid].shots[rooms[rid].players[1]]
                       + rooms[rid].shots[rooms[rid].players[2]] < MaxShots
         /\ \E first_hit \in FirstHits, any_rail \in BOOLEAN, potted \in SUBSET PotBalls :
              /\ (potted # {} => any_rail)
              /\ \/ wire' = GameMsg(c, rid, "shot_end", first_hit, any_rail, potted, FALSE, {}, << 0, 0 >>)
                 \/ \E alive \in Reports(potted) :
                       /\ \/ (rooms[rid].turn = LookupUser(c, task[c].user_id)
                                /\ rooms[rid].winner = None)
                          \/ TableBalls \subseteq alive
                       /\ wire' = GameMsg(c, rid, "shot_end", first_hit, any_rail, potted, TRUE, alive, << 0, 0 >>)
    /\ sent' = {}
    /\ UNCHANGED << users, rooms, invites, conn, task, clock, issued >>

\* a place_cue message arrives on connection c
RecvPlaceCue(c) ==
    /\ wire = NoMsg
    /\ conn[c] = "open"
    /\ task[c].pc = "recv"
    /\ \E rid \in DOMAIN rooms, pt \in PlacePoints :
         /\ rooms[rid].started
         /\ wire' = GameMsg(c, rid, "place_cue", NoBall, FALSE, {}, FALSE, {}, pt)
    /\ sent' = {}
    /\ UNCHANGED << users, rooms, invites, conn, task, clock, issued >>

\* ws_main lines 409-428 and handle_game_msg for the message on the wire, then
\* the cleanup() at the top of the next loop turn (line 397)
HandleGameMsg ==
    /\ wire # NoMsg
    /\ LET c == wire.conn
           rid == wire.roomId
           user_id == LookupUser(c, task[c].user_id)
           handled == rid \in DOMAIN rooms /\ user_id # None
                      /\ user_id \in { rooms[rid].players[1], rooms[rid].players[2] }
           room2 == IF ~handled THEN None
                    ELSE IF wire.t = "place_cue" THEN place_cue(rooms[rid], user_id, wire)
                    ELSE shot_end(rooms[rid], user_id, wire)
           rooms2 == IF handled THEN [rooms EXCEPT ![rid] = room2] ELSE rooms
       IN  /\ task' = [task EXCEPT ![c].user_id = user_id]
           /\ rooms' = LiveRooms(rooms2, users)
           /\ invites' = LiveInvites(invites, clock)
           /\ sent' = IF user_id = None THEN Send(c, [t |-> "error", code |-> "no_hello"])
                      ELSE IF ~handled THEN {}
                      ELSE IF wire.t = "place_cue"
                           THEN (IF PlaceOk(rooms[rid], user_id, wire)
                                 THEN RoomCast(rooms2, users, rid)
                                 ELSE IF users[user_id].ws # None
                                      THEN Send(users[user_id].ws, [t |-> "error", code |-> "place_cue"])
                                      ELSE {})
                           ELSE (IF rooms[rid].turn # user_id \/ rooms[rid].winner # None
                                 THEN {}
                                 ELSE RoomCast(rooms2, users, rid))
    /\ wire' = NoMsg
    /\ UNCHANGED << users, conn, clock, issued >>

\* a ws_main task waiting in receive_text, with its locals: the sticky user_id
\* and, inside a handler, the handler's found_id / inv_id / accept / room_id
\* and the players of the room object it holds
IdleTask == [pc |-> "recv", user_id |-> None, found_id |-> None, inv_id |-> None,
             accept |-> FALSE, room_id |-> None, players |-> << >>]

\* the state handle_invite_answer leaves once u1's invite to u2 is accepted and
\* both players are connected: a started room
InitGame ==
    /\ users = [u \in {"u1", "u2"} |->
                  [name |-> u, ws |-> (IF u = "u1" THEN "c1" ELSE "c2"),
                   status |-> "in_room", roomId |-> "r1", resume |-> u]]
    /\ \E rack \in Racks :
          rooms = [r \in {"r1"} |-> start_new_game(NewRoom(users, "u1", "u2"), rack)]
    /\ invites = << >>
    /\ conn = [c \in Conns |-> "open"]
    /\ task = [c \in Conns |-> IdleTask]
    /\ clock = 0
    /\ wire = NoMsg
    /\ sent = {}
    /\ issued = {"i1", "r1"}

NextGame ==
    \/ \E c \in Conns : RecvShotEnd(c)
    \/ \E c \in Conns : RecvPlaceCue(c)
    \/ HandleGameMsg

SpecGame == InitGame /\ [][NextGame]_vars

----------------------------------------------------------------------------
(* Properties of the referee, checked under SpecGame.  A step from a state *)
(* with a message on the wire is the handling of that message.             *)

\* the sender of the message on the wire, and the room it names
WSender == LookupUser(wire.conn, task[wire.conn].user_id)
WRoom == rooms[wire.roomId]
WOpp == Opponent(WRoom, WSender)
WShot ==
    [first_hit |-> wire.first_hit, any_rail |-> wire.any_rail, potted |-> wire.potted,
     balls |-> ReportedBalls(WRoom, wire)]

\* the message on the wire is a shot the server accepts
ShotTaken ==
    /\ wire.t = "shot_end"
    /\ wire.roomId \in DOMAIN rooms
    /\ WRoom.started
    /\ WRoom.turn = WSender
    /\ WRoom.winner = None

\* the message on the wire is a shot the server must drop
ShotDropped ==
    /\ wire.t = "shot_end"
    /\ wire.roomId \in DOMAIN rooms
    /\ WRoom.started
    /\ (WRoom.winner # None \/ WRoom.turn # WSender)

\* the balls alive in the table the shot reports (the room's, when it reports none)
ReportedAlive == IF wire.table THEN wire.alive ELSE AliveNums(WRoom.balls)

GroupBalls(g) == IF g = "SOLID" THEN 1..7 ELSE 9..15
OtherGroup(g) == IF g = "SOLID" THEN "STRIPE" ELSE "SOLID"

\* C1: every accepted shot that pots the 8 ends the match on that shot; the
\* shooter is the winner iff they have a group, no ball of that group is alive
\* in the reported table and no foul was flagged; else the opponent is.
C1_EightBallOutcome ==
    [][ (ShotTaken /\ 8 \in wire.potted) =>
          LET after == rooms'[wire.roomId]
              g == WRoom.groups[WSender]
              wins == /\ g # None
                      /\ GroupBalls(g) \cap ReportedAlive = {}
                      /\ ~Foul(WRoom, WSender, WShot)
          IN  /\ after.turn = None
              /\ after.winner = (IF wins THEN WSender ELSE WOpp)
              /\ after.groups = WRoom.groups ]_vars

\* C1 witness: a match the shooter has won by a legal 8
C1_Witness ==
    \E rid \in DOMAIN rooms :
        /\ rooms[rid].started
        /\ rooms[rid].winner # None
        /\ rooms[rid].msg = << "good_eight", rooms[rid].winner >>

\* C2, as claimed: an assigned shooter's first contact on the other group, or on
\* the 8 while own balls remain alive, is a foul (the opponent gets the turn and
\* ball-in-hand, or the match if the 8 fell); a first contact on the 8 with the
\* group cleared is no foul, so potting the 8 then, with no other foul, wins.
C2_FirstContactClaim ==
    [][ (ShotTaken /\ WRoom.groups[WSender] # None) =>
          LET after == rooms'[wire.roomId]
              g == WRoom.groups[WSender]
              remain == GroupBalls(g) \cap AliveNums(WRoom.balls) # {}
              fouled == IF 8 \in wire.potted THEN after.winner = WOpp
                        ELSE after.turn = WOpp /\ after.ball_in_hand[WOpp]
                             /\ after.msg[1] = "foul"
          IN  /\ (wire.first_hit \in GroupBalls(OtherGroup(g)) => fouled)
              /\ (wire.first_hit = 8 /\ remain => fouled)
              /\ (wire.first_hit = 8 /\ ~remain /\ GroupBalls(g) \cap ReportedAlive = {}
                    /\ 8 \in wire.potted /\ 0 \notin wire.potted
                  => after.winner = WSender) ]_vars

\* C3: a recorded winner means no turn holder, and a shot_end from anyone but the
\* turn holder, or after a win, changes nothing of the room and is not broadcast.
C3_TerminalAndRejection ==
    [][ /\ \A rid \in DOMAIN rooms :
             rooms[rid].started /\ rooms[rid].winner # None => rooms[rid].turn = None
        /\ \A rid \in DOMAIN rooms' :
             rooms'[rid].started /\ rooms'[rid].winner # None => rooms'[rid].turn = None
        /\ (ShotDropped => rooms' = rooms /\ sent' = {}) ]_vars

\* C3 witness: a shot_end received for a match that already has a winner
C3_Witness ==
    /\ wire.t = "shot_end"
    /\ ShotDropped
    /\ WRoom.winner # None
    /\ WSender \in { WRoom.players[1], WRoom.players[2] }

\* C4, as claimed: every accepted shot that pots the cue ball gives the opponent
\* ball-in-hand and the turn, whatever else was potted, and the cue ball stays alive.
C4_ScratchClaim ==
    [][ (ShotTaken /\ 0 \in wire.potted) =>
          LET after == rooms'[wire.roomId]
          IN  /\ after.ball_in_hand[WOpp]
              /\ after.turn = WOpp
              /\ after.balls[0].alive ]_vars

\* C4, amended: an accepted shot that pots the cue ball and not the 8 is a foul:
\* the opponent gets ball-in-hand and the turn and the message is the foul
\* message with the scratch reason first; with the 8 potted too the match ends,
\* the opponent wins and nobody holds the turn.  The cue ball is alive either way.
C4_Scratch ==
    [][ (ShotTaken /\ 0 \in wire.potted) =>
          LET after == rooms'[wire.roomId]
          IN  /\ after.balls[0].alive
              /\ (8 \notin wire.potted =>
                    /\ after.ball_in_hand[WOpp]
                    /\ after.turn = WOpp
                    /\ after.winner = None
                    /\ Len(after.msg) >= 3 /\ after.msg[1] = "foul" /\ after.msg[2] = WOpp
                    /\ after.msg[3] = "scratch")
              /\ (8 \in wire.potted =>
                    /\ after.winner = WOpp
                    /\ after.turn = None
                    /\ after.ball_in_hand = WRoom.ball_in_hand) ]_vars

\* C4 witness: a scratch has been judged: the table reported the cue ball dead,
\* the opponent holds the turn and ball-in-hand
C4_Witness ==
    \E rid \in DOMAIN rooms :
        /\ rooms[rid].started
        /\ Len(rooms[rid].msg) >= 3
        /\ rooms[rid].msg[1] = "foul"
        /\ rooms[rid].msg[3] = "scratch"
        /\ rooms[rid].turn = rooms[rid].msg[2]
        /\ rooms[rid].ball_in_hand[rooms[rid].turn]
        /\ rooms[rid].balls[0].alive
        /\ 1 \notin AliveNums(rooms[rid].balls)

\* C8: in a started match either both players are unassigned or one is SOLID and
\* the other STRIPE.
C8_GroupInvariant ==
    \A rid \in DOMAIN rooms :
        rooms[rid].started =>
            LET g1 == rooms[rid].groups[rooms[rid].players[1]]
                g2 == rooms[rid].groups[rooms[rid].players[2]]
            IN  \/ (g1 = None /\ g2 = None)
                \/ (g1 = "SOLID" /\ g2 = "STRIPE")
                \/ (g1 = "STRIPE" /\ g2 = "SOLID")

\* C8 witness: a match whose groups are assigned
C8_Witness ==
    \E rid \in DOMAIN rooms :
        /\ rooms[rid].started
        /\ rooms[rid].groups[rooms[rid].players[1]] = "STRIPE"
        /\ rooms[rid].groups[rooms[rid].players[2]] = "SOLID"

\* C9: an accepted shot without the 8, both players unassigned: potted object
\* balls all solids (at least one) make the shooter SOLID and the opponent
\* STRIPE, all stripes the reverse, both kinds or none leave both unassigned;
\* and assigned groups are never changed by any later shot or cue placement.
C9_GroupAssignment ==
    [][ /\ (ShotTaken /\ 8 \notin wire.potted
              /\ WRoom.groups[WSender] = None /\ WRoom.groups[WOpp] = None) =>
             LET after == rooms'[wire.roomId]
                 obj == wire.potted \ {0}
             IN  /\ (obj # {} /\ obj \subseteq 1..7 =>
                        after.groups[WSender] = "SOLID" /\ after.groups[WOpp] = "STRIPE")
                 /\ (obj # {} /\ obj \subseteq 9..15 =>
                        after.groups[WSender] = "STRIPE" /\ after.groups[WOpp] = "SOLID")
                 /\ (obj = {} \/ (obj \cap (1..7) # {} /\ obj \cap (9..15) # {}) =>
                        after.groups[WSender] = None /\ after.groups[WOpp] = None)
        /\ \A rid \in DOMAIN rooms :
             (rooms[rid].started /\ \E p \in DOMAIN rooms[rid].groups : rooms[rid].groups[p] # None)
                => (rid \in DOMAIN rooms' /\ rooms'[rid].groups = rooms[rid].groups) ]_vars

\* C9 witness: the shooter potted solids only, became SOLID and shoots again
C9_Witness ==
    \E rid \in DOMAIN rooms :
        /\ rooms[rid].started
        /\ rooms[rid].msg = << "again", rooms[rid].players[1] >>
        /\ rooms[rid].groups[rooms[rid].players[1]] = "SOLID"
        /\ rooms[rid].groups[rooms[rid].players[2]] = "STRIPE"
        /\ rooms[rid].shots[rooms[rid].players[1]] = 1
        /\ rooms[rid].shots[rooms[rid].players[2]] = 0

\* C10: an accepted shot without the 8: on a foul the opponent gets ball-in-hand
\* and the turn; else the shooter keeps the turn iff they potted a ball of their
\* own group (or, still unassigned after the shot, any ball but 0 and 8), and
\* otherwise the turn passes and no ball-in-hand flag changes.
C10_TurnResolution ==
    [][ (ShotTaken /\ 8 \notin wire.potted) =>
          LET after == rooms'[wire.roomId]
              g == after.groups[WSender]
              own == IF g = None THEN wire.potted \ {0, 8} # {}
                     ELSE wire.potted \cap GroupBalls(g) # {}
          IN  IF Foul(WRoom, WSender, WShot)
              THEN /\ after.turn = WOpp
                   /\ after.ball_in_hand[WOpp]
                   /\ after.ball_in_hand[WSender] = WRoom.ball_in_hand[WSender]
              ELSE /\ after.turn = (IF own THEN WSender ELSE WOpp)
                   /\ after.ball_in_hand = WRoom.ball_in_hand
                   /\ after.winner = None ]_vars

\* C10 witness: a STRIPE shooter potted no stripe without fouling: the turn
\* passed to the SOLID opponent, who holds no ball-in-hand
C10_Witness ==
    \E rid \in DOMAIN rooms :
        /\ rooms[rid].started
        /\ Len(rooms[rid].msg) = 2 /\ rooms[rid].msg[1] = "pass"
        /\ rooms[rid].groups[rooms[rid].turn] = "SOLID"
        /\ ~rooms[rid].ball_in_hand[rooms[rid].turn]
        /\ 1 \notin AliveNums(rooms[rid].balls)

----------------------------------------------------------------------------
(* The lobby: the ws_main tasks of the connections.  A step runs one task  *)
(* from one await to the next; the sends that end a handler write no state *)
(* and are one step (HandlerTail).  `sent` holds what the step sent before *)
(* it suspended.                                                           *)

\* now() advances by TickSeconds at a time, MaxTicks times at most
MaxTicks == 2
TickSeconds == 20

\* the names a modelled client sends in hello
RawNames == {"Ann"}
\* the resume tokens a modelled client sends: none, or the token of a user id
ResumeInputs == {""} \cup UserIds
\* the kinds of message other than hello and get_users
OtherKinds == {"invite", "accept_invite", "decline_invite", "place_cue", "shot_end",
               "leave_room", "pong"}

\* line 269, for names that need no stripping or cutting
NameOf(raw) == IF raw = "" THEN "Jatekos" ELSE raw

\* line 283: the resume token of a new user
TokenOf(uid) == uid

\* lines 272-275: the first user whose resume token is the one given
FindResume(us, resume) ==
    LET hits == { i \in 1..Len(UserOrder) :
                    UserOrder[i] \in DOMAIN us /\ us[UserOrder[i]].resume = resume }
    IN  IF resume = "" \/ hits = {} THEN None
        ELSE UserOrder[CHOOSE i \in hits : \A j \in hits : i <= j]

\* line 282: the id of the next new user, None when the model has no more
FreshUser(us) ==
    LET free == { i \in 1..Len(UserOrder) : UserOrder[i] \notin DOMAIN us }
    IN  IF free = {} THEN None
        ELSE UserOrder[CHOOSE i \in free : \A j \in free : i <= j]

\* line 279
Rebind(us, uid, c) ==
    [us EXCEPT ![uid].ws = c, ![uid].status = "lobby", ![uid].roomId = None]

\* line 283
AddUser(us, uid, name, c) ==
    [u \in DOMAIN us \cup {uid} |->
        IF u = uid
        THEN [name |-> name, ws |-> c, status |-> "lobby", roomId |-> None,
              resume |-> TokenOf(uid)]
        ELSE us[u]]

\* line 286
Welcome(us, uid) ==
    [t |-> "welcome", userId |-> uid, name |-> us[uid].name, resumeToken |-> us[uid].resume]

ErrorMsg(code) == [t |-> "error", code |-> code]

\* lines 435-437: the users bound to connection c are unbound
FinallyUsers(us, c) ==
    [u \in DOMAIN us |->
        IF us[u].ws = c
        THEN [us[u] EXCEPT !.ws = None, !.roomId = None, !.status = "lobby"]
        ELSE us[u]]

\* cleanup lines 45-51: the notices of the invites expiring at time tnow
ExpiryNotes(inv, us, tnow) ==
    UNION { UNION { IF us[uid].ws # None
                    THEN Send(us[uid].ws, [t |-> "invite_update", inviteId |-> j,
                                           status |-> "expired"])
                    ELSE {} : uid \in {inv[j].from, inv[j].to} }
            : j \in { k \in DOMAIN inv : inv[k].status = "sent" /\ tnow > inv[k].expires } }

\* the state a task's step works on and leaves
Cur(c) ==
    [users |-> users, rooms |-> rooms, invites |-> invites, issued |-> issued,
     sent |-> {}, task |-> task[c]]

Apply(c, r) ==
    /\ users' = r.users
    /\ rooms' = r.rooms
    /\ invites' = r.invites
    /\ issued' = r.issued
    /\ sent' = r.sent
    /\ task' = [task EXCEPT ![c] = r.task]

\* the handler suspends in an await; the task goes on at pc
Yield(r, pc) == [r EXCEPT !.task.pc = pc]

\* the handler returned: line 397, cleanup() of the next loop turn, then the
\* task waits in receive_text
LoopTop(r) ==
    [r EXCEPT !.invites = LiveInvites(r.invites, clock),
              !.rooms = LiveRooms(r.rooms, r.users),
              !.sent = r.sent \cup ExpiryNotes(r.invites, r.users, clock),
              !.task = [IdleTask EXCEPT !.user_id = r.task.user_id]]

\* lines 433-439: the task of connection c ends
Finally(c, r) ==
    LET us == FinallyUsers(r.users, c) IN
    [r EXCEPT !.users = us,
              !.invites = LiveInvites(r.invites, clock),
              !.rooms = LiveRooms(r.rooms, us),
              !.sent = r.sent \cup ExpiryNotes(r.invites, us, clock),
              !.task = [IdleTask EXCEPT !.pc = "done", !.user_id = r.task.user_id]]

\* the connections are taken in this order
ConnOrder == << "c1", "c2" >>

\* a client connects: ws.accept(), then the first cleanup() of the loop
Connect(c) ==
    /\ conn[c] = "new"
    /\ \A i, j \in 1..Len(ConnOrder) : (i < j /\ ConnOrder[j] = c) => conn[ConnOrder[i]] # "new"
    /\ conn' = [conn EXCEPT ![c] = "open"]
    /\ Apply(c, LoopTop(Cur(c)))
    /\ UNCHANGED << clock, wire >>

\* the client of connection c goes away
ClientClose(c) ==
    /\ conn[c] = "open"
    /\ conn' = [conn EXCEPT ![c] = "closed"]
    /\ sent' = {}
    /\ UNCHANGED << users, rooms, invites, task, clock, wire, issued >>

\* time passes
Tick ==
    /\ clock + TickSeconds <= MaxTicks * TickSeconds
    /\ clock' = clock + TickSeconds
    /\ sent' = {}
    /\ UNCHANGED << users, rooms, invites, conn, task, wire, issued >>

\* receive_text returns a message on connection c
Receiving(c) == conn[c] = "open" /\ task[c].pc = "recv"

\* lines 411-413 for the message just received
Looked(c) == [Cur(c) EXCEPT !.task.user_id = LookupUser(c, task[c].user_id)]

\* handle_hello up to its first await: the close of the resumed user's
\* connection (line 277) or the welcome (line 286)
hello(c, r, raw, resume) ==
    LET found_id == FindResume(r.users, resume)
        uid == FreshUser(r.users)
    IN  IF found_id # None /\ r.users[found_id].ws # None
        THEN Yield([r EXCEPT !.task.found_id = found_id], "hello_close")
        ELSE IF found_id # None
             THEN Yield([r EXCEPT !.users = Rebind(r.users, found_id, c),
                                  !.sent = Send(c, Welcome(r.users, found_id))], "tail")
             ELSE Yield([r EXCEPT !.users = AddUser(r.users, uid, NameOf(raw), c),
                                  !.sent = Send(c, Welcome(AddUser(r.users, uid, NameOf(raw), c), uid))],
                        "tail")

RecvHello(c, raw, resume) ==
    /\ Receiving(c)
    /\ FindResume(users, resume) = None => FreshUser(users) # None
    /\ Apply(c, hello(c, Looked(c), raw, resume))
    /\ LET found_id == FindResume(users, resume) IN
          conn' = IF found_id # None /\ users[found_id].ws # None
                  THEN [conn EXCEPT ![users[found_id].ws] = "closed"]
                  ELSE conn
    /\ UNCHANGED << clock, wire >>

\* handle_hello from line 279, after the close was awaited
HelloRebind(c) ==
    /\ task[c].pc = "hello_close"
    /\ LET r == Cur(c)
           found_id == task[c].found_id
       IN  Apply(c, Yield([r EXCEPT !.users = Rebind(users, found_id, c),
                                    !.sent = Send(c, Welcome(users, found_id))], "tail"))
    /\ UNCHANGED << conn, clock, wire >>

\* line 418
RecvGetUsers(c) ==
    /\ Receiving(c)
    /\ Apply(c, Yield([Looked(c) EXCEPT !.sent = Send(c, [t |-> "presence"])], "tail"))
    /\ UNCHANGED << conn, clock, wire >>

\* lines 419-420: a message of kind t before any hello
RecvNoSession(c, t) ==
    /\ Receiving(c)
    /\ LookupUser(c, task[c].user_id) = None
    /\ Apply(c, Yield([Looked(c) EXCEPT !.sent = Send(c, ErrorMsg("no_hello"))], "tail"))
    /\ UNCHANGED << conn, clock, wire >>

\* a loop that lets a pong through before any hello
RecvPongUnchecked(c) ==
    /\ Receiving(c)
    /\ Apply(c, LoopTop(Looked(c)))
    /\ UNCHANGED << conn, clock, wire >>

\* lines 429-430: nothing is awaited
RecvPong(c) ==
    /\ Receiving(c)
    /\ LookupUser(c, task[c].user_id) # None
    /\ Apply(c, LoopTop(Looked(c)))
    /\ UNCHANGED << conn, clock, wire >>

\* the rest of a handler's awaits, then the next loop turn
HandlerTail(c) ==
    /\ task[c].pc = "tail"
    /\ Apply(c, LoopTop(Cur(c)))
    /\ UNCHANGED << conn, clock, wire >>

\* receive_text raises on a closed connection: the finally block
Disconnect(c) ==
    /\ conn[c] = "closed"
    /\ task[c].pc = "recv"
    /\ Apply(c, Finally(c, Cur(c)))
    /\ UNCHANGED << conn, clock, wire >>

\* dict.pop(k, None)
Without(f, k) == [x \in DOMAIN f \ {k} |-> f[x]]

\* the first user with a connection, in the order of the users dict
FirstBound(us) ==
    LET hits == { i \in 1..Len(UserOrder) :
                    UserOrder[i] \in DOMAIN us /\ us[UserOrder[i]].ws # None }
    IN  IF hits = {} THEN None
        ELSE UserOrder[CHOOSE i \in hits : \A j \in hits : i <= j]

\* handle_invite, lines 290-299, up to its first await
invite(c, r, to, inv_id) ==
    LET sender_id == r.task.user_id
        msg == [t |-> "invite_update", inviteId |-> inv_id, from |-> sender_id,
                to |-> to, status |-> "sent"]
        inv == [from |-> sender_id, to |-> to, created |-> clock,
                expires |-> clock + INVITE_TTL, status |-> "sent"]
        r1 == [r EXCEPT !.invites = [i \in DOMAIN r.invites \cup {inv_id} |->
                                        IF i = inv_id THEN inv ELSE r.invites[i]],
                        !.issued = @ \cup {inv_id}]
    IN  IF to = sender_id \/ to \notin DOMAIN r.users
        THEN Yield([r EXCEPT !.sent = Send(c, ErrorMsg("bad_invitee"))], "tail")
        ELSE IF r.users[sender_id].ws # None
             THEN Yield([r1 EXCEPT !.sent = Send(r.users[sender_id].ws, msg)], "tail")
             ELSE IF r.users[to].ws # None
                  THEN Yield([r1 EXCEPT !.sent = Send(r.users[to].ws, msg)], "tail")
                  ELSE LoopTop(r1)

RecvInvite(c, to) ==
    /\ Receiving(c)
    /\ LookupUser(c, task[c].user_id) # None
    /\ (to # LookupUser(c, task[c].user_id) /\ to \in DOMAIN users) => InviteIds \ issued # {}
    /\ LET inv_id == IF InviteIds \ issued = {} THEN None
                     ELSE CHOOSE i \in InviteIds \ issued : TRUE
       IN  Apply(c, invite(c, Looked(c), to, inv_id))
    /\ UNCHANGED << conn, clock, wire >>

\* a handler that answers an invite whatever its status
AnswerErrorAnyStatus(iv, inv_id, who_id) ==
    IF inv_id \notin DOMAIN iv
    THEN "invite_missing"
    ELSE IF iv[inv_id].to # who_id THEN "not_receiver" ELSE None

\* a handler that lets anyone answer an invite
AnswerErrorAnyResponder(iv, inv_id, who_id) ==
    IF inv_id \notin DOMAIN iv \/ iv[inv_id].status # "sent"
    THEN "invite_missing"
    ELSE None

\* lines 304-307: the error an answer gets, None when it gets none
AnswerError(iv, inv_id, who_id) ==
    IF inv_id \notin DOMAIN iv \/ iv[inv_id].status # "sent"
    THEN "invite_missing"
    ELSE IF iv[inv_id].to # who_id THEN "not_receiver" ELSE None

\* lines 336-339: the invite goes, the game starts; rooms[room_id] raises
\* KeyError when a cleanup() has removed the room, and the task ends
accept_end(c, r, rack) ==
    LET rid == r.task.room_id
        r1 == [r EXCEPT !.invites = Without(r.invites, r.task.inv_id)]
        first == FirstBound(r.users)
    IN  IF rid \notin DOMAIN r.rooms
        THEN Finally(c, r1)
        ELSE IF first # None
             THEN Yield([r1 EXCEPT !.rooms[rid] = start_new_game(@, rack),
                                   !.sent = Send(r.users[first].ws, [t |-> "presence"])], "tail")
             ELSE LoopTop([r1 EXCEPT !.rooms[rid] = start_new_game(@, rack)])

\* lines 327-335 for the second player
accept_p2(c, r, rack) ==
    LET rid == r.task.room_id
        p2 == r.invites[r.task.inv_id].to
        r1 == [r EXCEPT !.users[p2].status = "in_room", !.users[p2].roomId = rid]
    IN  IF r.users[p2].ws # None
        THEN Yield([r1 EXCEPT !.sent = Send(r.users[p2].ws,
                                  [t |-> "room_start", roomId |-> rid, youAre |-> "guest"])],
                   "acc_end")
        ELSE accept_end(c, r1, rack)

\* lines 327-335 for the first player
accept_p1(c, r, rack) ==
    LET rid == r.task.room_id
        p1 == r.invites[r.task.inv_id].from
        r1 == [r EXCEPT !.users[p1].status = "in_room", !.users[p1].roomId = rid]
    IN  IF r.users[p1].ws # None
        THEN Yield([r1 EXCEPT !.sent = Send(r.users[p1].ws,
                                  [t |-> "room_start", roomId |-> rid, youAre |-> "host"])],
                   "acc_p2")
        ELSE accept_p2(c, r1, rack)

\* lines 315-326: after the notices, a declined invite goes; an accepted one
\* gets its room
answered(c, r, rack) ==
    LET inv_id == r.task.inv_id
        rid == CHOOSE q \in RoomIds \ r.issued : TRUE
        p1 == r.invites[inv_id].from
        p2 == r.invites[inv_id].to
    IN  IF ~r.task.accept
        THEN LoopTop([r EXCEPT !.invites = Without(r.invites, inv_id)])
        ELSE accept_p1(c, [r EXCEPT !.rooms = [q \in DOMAIN r.rooms \cup {rid} |->
                                                  IF q = rid THEN NewRoom(r.users, p1, p2)
                                                  ELSE r.rooms[q]],
                                    !.issued = @ \cup {rid},
                                    !.task.room_id = rid], rack)

\* handle_invite_answer, lines 301-313, up to its first await
answer(c, r, inv_id, accept, rack) ==
    LET who_id == r.task.user_id
        err == AnswerError(r.invites, inv_id, who_id)
        status == IF accept THEN "accepted" ELSE "declined"
        msg == [t |-> "invite_update", inviteId |-> inv_id, status |-> status]
        r1 == [r EXCEPT !.invites[inv_id].status = status,
                        !.task.inv_id = inv_id, !.task.accept = accept]
    IN  IF err # None
        THEN Yield([r EXCEPT !.sent = Send(c, ErrorMsg(err))], "tail")
        ELSE IF r.users[r.invites[inv_id].from].ws # None
             THEN Yield([r1 EXCEPT !.sent = Send(r.users[r.invites[inv_id].from].ws, msg)],
                        "ans_notify")
             ELSE IF r.users[r.invites[inv_id].to].ws # None
                  THEN Yield([r1 EXCEPT !.sent = Send(r.users[r.invites[inv_id].to].ws, msg)],
                             "ans_notify")
                  ELSE answered(c, r1, rack)

\* an accept_invite (accept) or decline_invite message arrives on connection c
RecvAnswer(c, inv_id, accept) ==
    /\ Receiving(c)
    /\ LookupUser(c, task[c].user_id) # None
    /\ (accept /\ AnswerError(invites, inv_id, LookupUser(c, task[c].user_id)) = None)
          => RoomIds \ issued # {}
    /\ \E rack \in Racks : Apply(c, answer(c, Looked(c), inv_id, accept, rack))
    /\ UNCHANGED << conn, clock, wire >>

\* handle_invite_answer from line 315, after the notices were awaited
AnswerNotified(c) ==
    /\ task[c].pc = "ans_notify"
    /\ \E rack \in Racks : Apply(c, answered(c, Cur(c), rack))
    /\ UNCHANGED << conn, clock, wire >>

\* handle_invite_answer after the first player's room_start was awaited
AcceptSecond(c) ==
    /\ task[c].pc = "acc_p2"
    /\ \E rack \in Racks : Apply(c, accept_p2(c, Cur(c), rack))
    /\ UNCHANGED << conn, clock, wire >>

\* handle_invite_answer from line 336, after the second room_start was awaited
AcceptEnd(c) ==
    /\ task[c].pc = "acc_end"
    /\ \E rack \in Racks : Apply(c, accept_end(c, Cur(c), rack))
    /\ UNCHANGED << conn, clock, wire >>

\* lines 388-389: the room goes; the user list is broadcast
leave_end(c, r) ==
    LET r1 == [r EXCEPT !.rooms = Without(r.rooms, r.task.room_id)]
        first == FirstBound(r.users)
    IN  IF first # None
        THEN Yield([r1 EXCEPT !.sent = Send(r.users[first].ws, [t |-> "presence"])], "tail")
        ELSE LoopTop(r1)

\* lines 383-387 for player i of the room the handler holds
leave_player(c, r, i) ==
    LET uid == r.task.players[i]
        r1 == [r EXCEPT !.users[uid].status = "lobby", !.users[uid].roomId = None]
    IN  IF r.users[uid].ws # None
        THEN Yield([r1 EXCEPT !.sent = Send(r.users[uid].ws,
                                  [t |-> "left_room", roomId |-> r.task.room_id])],
                   IF i = 1 THEN "leave_p2" ELSE "leave_end")
        ELSE IF i = 1
             THEN LET uid2 == r.task.players[2]
                      r2 == [r1 EXCEPT !.users[uid2].status = "lobby",
                                       !.users[uid2].roomId = None]
                  IN  IF r1.users[uid2].ws # None
                      THEN Yield([r2 EXCEPT !.sent = Send(r1.users[uid2].ws,
                                                [t |-> "left_room", roomId |-> r.task.room_id])],
                                 "leave_end")
                      ELSE leave_end(c, r2)
             ELSE leave_end(c, r1)

\* handle_game_msg, lines 342-345 and 381-387, up to its first await
leave_room(c, r, rid) ==
    IF rid \notin DOMAIN r.rooms
       \/ r.task.user_id \notin { r.rooms[rid].players[1], r.rooms[rid].players[2] }
    THEN LoopTop(r)
    ELSE leave_player(c, [r EXCEPT !.task.room_id = rid,
                                   !.task.players = r.rooms[rid].players], 1)

\* a leave_room message naming room rid arrives on connection c
RecvLeaveRoom(c, rid) ==
    /\ Receiving(c)
    /\ LookupUser(c, task[c].user_id) # None
    /\ Apply(c, leave_room(c, Looked(c), rid))
    /\ UNCHANGED << conn, clock, wire >>

\* handle_game_msg leave_room after the first player's left_room was awaited
LeaveSecond(c) ==
    /\ task[c].pc = "leave_p2"
    /\ Apply(c, leave_player(c, Cur(c), 2))
    /\ UNCHANGED << conn, clock, wire >>

\* handle_game_msg leave_room from line 388, after the left_room sends
LeaveEnd(c) ==
    /\ task[c].pc = "leave_end"
    /\ Apply(c, leave_end(c, Cur(c)))
    /\ UNCHANGED << conn, clock, wire >>

\* the server has just started
Init ==
    /\ users = << >>
    /\ rooms = << >>
    /\ invites = << >>
    /\ conn = [c \in Conns |-> "new"]
    /\ task = [c \in Conns |-> IdleTask]
    /\ clock = 0
    /\ wire = NoMsg
    /\ sent = {}
    /\ issued = {}

Next ==
    \/ \E c \in Conns : Connect(c)
    \/ \E c \in Conns : ClientClose(c)
    \/ Tick
    \/ \E c \in Conns, raw \in RawNames, resume \in ResumeInputs : RecvHello(c, raw, resume)
    \/ \E c \in Conns : HelloRebind(c)
    \/ \E c \in Conns : RecvGetUsers(c)
    \/ \E c \in Conns, t \in OtherKinds : RecvNoSession(c, t)
    \/ \E c \in Conns : RecvPong(c)
    \/ \E c \in Conns, to \in UserIds : RecvInvite(c, to)
    \/ \E c \in Conns, inv_id \in InviteIds, accept \in BOOLEAN : RecvAnswer(c, inv_id, accept)
    \/ \E c \in Conns : AnswerNotified(c)
    \/ \E c \in Conns : AcceptSecond(c)
    \/ \E c \in Conns : AcceptEnd(c)
    \/ \E c \in Conns, rid \in RoomIds : RecvLeaveRoom(c, rid)
    \/ \E c \in Conns : LeaveSecond(c)
    \/ \E c \in Conns : LeaveEnd(c)
    \/ \E c \in Conns : HandlerTail(c)
    \/ \E c \in Conns : Disconnect(c)

Spec == Init /\ [][Next]_vars

----------------------------------------------------------------------------
(* Properties of the lobby, checked under Spec.  A step that satisfies a   *)
(* Recv action is the handling of that message up to its first await.      *)

\* C5: an accept_invite the invite's receiver sends, handled at a time later
\* than the invite's expires, fails with invite_missing and creates no room,
\* whatever the tasks did before
C5_ExpiredNeverAccepted ==
    [][\A c \in Conns, inv_id \in InviteIds :
          (/\ RecvAnswer(c, inv_id, TRUE)
           /\ inv_id \in DOMAIN invites
           /\ invites[inv_id].to = LookupUser(c, task[c].user_id)
           /\ clock > invites[inv_id].expires)
          => /\ sent' = { << c, ErrorMsg("invite_missing") >> }
             /\ rooms' = rooms
             /\ invites' = invites]_vars

\* C6: what a hello with the resume token of user found_id leaves when its
\* welcome is sent on connection c
ResumeKept(c, found_id) ==
    /\ DOMAIN users' = DOMAIN users
    /\ sent' \subseteq { << c, [t |-> "welcome", userId |-> found_id,
                              name |-> users[found_id].name,
                              resumeToken |-> users[found_id].resume] >> }
    /\ conn[c] = "open" => sent' # {}
    /\ users'[found_id].resume = users[found_id].resume
    /\ users'[found_id].ws = c
    /\ users'[found_id].status = "lobby"
    /\ users'[found_id].roomId = None
    /\ \A c2 \in Conns \ {c} : users[found_id].ws = c2 => conn[c2] # "open"

\* C6: a hello with an existing user's resume token creates no user; its welcome
\* names that user and their token, the user is bound to the new connection, in
\* the lobby and in no room, and the connection the user had is closed
C6_ResumeKeepsIdentity ==
    [][\A c \in Conns :
          /\ \A raw \in RawNames, resume \in ResumeInputs :
                (RecvHello(c, raw, resume) /\ FindResume(users, resume) # None)
                => /\ DOMAIN users' = DOMAIN users
                   /\ users[FindResume(users, resume)].ws = None
                         => ResumeKept(c, FindResume(users, resume))
          /\ HelloRebind(c) => ResumeKept(c, task[c].found_id)]_vars

\* C7: an answer to an invite that is not in the table or not "sent" gets
\* invite_missing, an answer to a "sent" invite from anyone but its receiver gets
\* not_receiver; either way users, invites and rooms stay as they are and the
\* error is the only message, sent to the asking connection
C7_InviteResolutionErrors ==
    [][\A c \in Conns, inv_id \in InviteIds, accept \in BOOLEAN :
          RecvAnswer(c, inv_id, accept)
          => LET who_id == LookupUser(c, task[c].user_id)
                 missing == inv_id \notin DOMAIN invites \/ invites[inv_id].status # "sent"
                 wrong == ~missing /\ invites[inv_id].to # who_id
             IN  /\ missing => /\ sent' = { << c, ErrorMsg("invite_missing") >> }
                               /\ UNCHANGED << users, invites, rooms >>
                 /\ wrong => /\ sent' = { << c, ErrorMsg("not_receiver") >> }
                             /\ UNCHANGED << users, invites, rooms >>
                 /\ (~missing /\ ~wrong) => \A m \in sent' : m[2].t # "error"]_vars

\* C7: the sender of a pending invite has just been refused as its answerer
C7_Witness ==
    \E c \in Conns, i \in DOMAIN invites :
        /\ sent = { << c, ErrorMsg("not_receiver") >> }
        /\ invites[i].status = "sent"
        /\ users[invites[i].from].ws = c

----------------------------------------------------------------------------
(* Properties of cue placement and of ball-in-hand, checked under SpecGame *)

\* the message on the wire is a place_cue of a player of the room it names
PlaceTaken ==
    /\ wire.t = "place_cue"
    /\ wire.roomId \in DOMAIN rooms
    /\ WRoom.started
    /\ WSender \in { WRoom.players[1], WRoom.players[2] }

\* the step broadcast the room: the placement was done
Placed == \E m \in sent' : m[2].t = "game_state"

\* squared distance from the point on the wire to ball k of the room
Dist2(k) ==
    (WRoom.balls[k].x - wire.x) * (WRoom.balls[k].x - wire.x)
    + (WRoom.balls[k].y - wire.y) * (WRoom.balls[k].y - wire.y)

\* the point on the wire and the allowed rectangle, its edge included or not
InsideStrictly ==
    /\ TABLE_X + RADIUS < wire.x /\ wire.x < TABLE_X + INNER_W - RADIUS
    /\ TABLE_Y + RADIUS < wire.y /\ wire.y < TABLE_Y + INNER_H - RADIUS
InsideOrOnEdge ==
    /\ TABLE_X + RADIUS <= wire.x /\ wire.x <= TABLE_X + INNER_W - RADIUS
    /\ TABLE_Y + RADIUS <= wire.y /\ wire.y <= TABLE_Y + INNER_H - RADIUS

\* some other alive ball is within two radii of the point on the wire
TooClose == \E k \in 1..15 : WRoom.balls[k].alive /\ Dist2(k) <= (2 * RADIUS) * (2 * RADIUS)

\* what a place_cue does given that a placement is done only where `inside` holds
PlacementRule(inside) ==
    LET after == rooms'[wire.roomId] IN
    /\ Placed => /\ WRoom.ball_in_hand[WSender]
                 /\ inside
                 /\ ~TooClose
                 /\ after.balls[0] = [x |-> wire.x, y |-> wire.y, alive |-> TRUE]
                 /\ ~after.ball_in_hand[WSender]
    /\ (~WRoom.ball_in_hand[WSender] \/ ~InsideOrOnEdge \/ TooClose) => ~Placed
    /\ ~Placed => /\ sent' = { << wire.conn, ErrorMsg("place_cue") >> }
                  /\ after.balls = WRoom.balls
                  /\ after.ball_in_hand = WRoom.ball_in_hand
                  /\ after.turn = WRoom.turn
                  /\ after.msg = WRoom.msg

\* C11, as claimed: a place_cue is done only if the sender holds ball-in-hand and
\* the point is strictly inside the interior inset by one radius and not within
\* two radii of another alive ball; done, the cue ball is there and alive and the
\* sender's flag is cleared; refused, the error goes to the sender only and
\* table, flags, turn and message stay.
C11_CuePlacementClaim == [][PlaceTaken => PlacementRule(InsideStrictly)]_vars

\* C11, amended: the same with the edge of the inset interior allowed
C11_CuePlacement == [][PlaceTaken => PlacementRule(InsideOrOnEdge)]_vars

\* C11 witness: the cue ball has been placed on the edge of the inset interior
C11_Witness ==
    \E rid \in DOMAIN rooms :
        /\ rooms[rid].started
        /\ rooms[rid].msg[1] = "placed"
        /\ ~rooms[rid].ball_in_hand[rooms[rid].msg[2]]
        /\ rooms[rid].balls[0] = [x |-> TABLE_X + RADIUS, y |-> TABLE_Y + INNER_H \div 2,
                                  alive |-> TRUE]

\* C18, as claimed: in a started match at most one player holds ball-in-hand,
\* and a player who holds it is the turn holder
C18_BallInHandIsShooters ==
    \A rid \in DOMAIN rooms :
        rooms[rid].started =>
            LET p1 == rooms[rid].players[1]
                p2 == rooms[rid].players[2]
            IN  /\ ~(rooms[rid].ball_in_hand[p1] /\ rooms[rid].ball_in_hand[p2])
                /\ \A p \in {p1, p2} : rooms[rid].ball_in_hand[p] => rooms[rid].turn = p

\* C19, as claimed: once a winner is recorded no shot_end or place_cue of a
\* player changes anything of the match
C19_GameOverFrozen ==
    [][\A rid \in DOMAIN rooms :
          (rooms[rid].started /\ rooms[rid].winner # None)
          => (rid \in DOMAIN rooms' /\ rooms'[rid] = rooms[rid])]_vars

----------------------------------------------------------------------------
(* Properties of rooms and sessions in the lobby, checked under Spec       *)

\* some listed player of room rid has it as room reference, in users table us
Referenced(us, rs, rid) ==
    \E i \in 1..2 : rs[rid].players[i] \in DOMAIN us /\ us[rs[rid].players[i]].roomId = rid

\* the step of connection c's task runs a cleanup() as its last thing
CleanupStep(c) ==
    \/ Connect(c)
    \/ RecvPong(c)
    \/ HandlerTail(c)
    \/ Disconnect(c)
    \/ (task'[c].pc # task[c].pc /\ task'[c].pc \in {"recv", "done"})
    \/ (task'[c].pc = "recv" /\ \E to \in UserIds : RecvInvite(c, to))
    \/ (task'[c].pc = "recv" /\ \E rid \in RoomIds : RecvLeaveRoom(c, rid))

\* the step is the end of a leave_room for room rid
LeaveEndOf(rid) == \E c \in Conns : task[c].pc = "leave_end" /\ task[c].room_id = rid /\ LeaveEnd(c)

\* C12: a room goes from the table only when no listed player references it (or
\* at the end of a leave_room for it), and every cleanup pass leaves no room that
\* no listed player references
C12_RoomTeardown ==
    [][/\ \A rid \in DOMAIN rooms \ DOMAIN rooms' :
             ~Referenced(users', rooms, rid) \/ LeaveEndOf(rid)
       /\ (\E c \in Conns : CleanupStep(c))
             => \A rid \in DOMAIN rooms' : Referenced(users', rooms', rid)]_vars

\* C12 witness: a started room that neither of its players references any more
\* is still in the table, waiting for a cleanup pass
C12_Witness ==
    \E rid \in DOMAIN rooms :
        /\ rooms[rid].started
        /\ ~Referenced(users, rooms, rid)

\* connection c waits for a message and no hello has bound it to a session
FreshConn(c) ==
    /\ Receiving(c)
    /\ task[c].user_id = None
    /\ \A u \in DOMAIN users : users[u].ws # c

\* the step answers no_hello to connection c alone and changes nothing else
NoSessionAnswer(c) ==
    /\ sent' = { << c, ErrorMsg("no_hello") >> }
    /\ users' = users /\ invites' = invites /\ rooms' = rooms
    /\ conn' = conn /\ conn[c] = "open"

\* the step answers the presence list to connection c alone and changes nothing else
PresenceAnswer(c) ==
    /\ sent' = { << c, [t |-> "presence"] >> }
    /\ users' = users /\ invites' = invites /\ rooms' = rooms
    /\ conn' = conn /\ conn[c] = "open"

\* connection c receives a message of a kind other than hello and get_users
RecvOther(c) ==
    \/ \E t \in OtherKinds : RecvNoSession(c, t)
    \/ RecvPong(c)
    \/ \E to \in UserIds : RecvInvite(c, to)
    \/ \E inv_id \in InviteIds, accept \in BOOLEAN : RecvAnswer(c, inv_id, accept)
    \/ \E rid \in RoomIds : RecvLeaveRoom(c, rid)

\* C13 as claimed: every message other than hello on a connection without a
\* session is answered no_hello to that connection only, changes no session,
\* invite or room, and leaves the connection open
C13_NoSessionYetClaim ==
    [][\A c \in Conns :
          (FreshConn(c) /\ (RecvOther(c) \/ RecvGetUsers(c))) => NoSessionAnswer(c)]_vars

\* C13: every message other than hello and get_users on a connection without a
\* session is answered no_hello to that connection only, changes no session,
\* invite or room, and leaves the connection open; get_users is answered with
\* the presence list, to that connection only and without any change
C13_NoSessionYet ==
    [][\A c \in Conns :
          /\ (FreshConn(c) /\ RecvOther(c)) => NoSessionAnswer(c)
          /\ (FreshConn(c) /\ RecvGetUsers(c)) => PresenceAnswer(c)]_vars

\* C13 witness: a connection without a session was just answered no_hello
\* while another connection holds a session
C13_Witness ==
    \E c \in Conns :
        /\ << c, ErrorMsg("no_hello") >> \in sent
        /\ task[c].pc = "tail" /\ task[c].user_id = None
        /\ conn[c] = "open"
        /\ \E u \in DOMAIN users : users[u].ws \notin {None, c}

\* the step belongs to connection c's handling of a valid accept of invite inv_id
AcceptOf(c, inv_id) ==
    \/ /\ AnswerError(invites, inv_id, LookupUser(c, task[c].user_id)) = None
       /\ RecvAnswer(c, inv_id, TRUE)
    \/ /\ task[c].inv_id = inv_id /\ task[c].accept
       /\ AnswerNotified(c)
    \/ /\ task[c].inv_id = inv_id
       /\ (AcceptSecond(c) \/ AcceptEnd(c))

\* after the step, a started match of inviter p1 and invitee p2 is in the room
\* table, both are in it, and its game state is the one of a new game
MatchStarted(p1, p2) ==
    \E rid \in DOMAIN rooms' :
        /\ rooms'[rid].players = << p1, p2 >>
        /\ users'[p1].status = "in_room" /\ users'[p1].roomId = rid
        /\ users'[p2].status = "in_room" /\ users'[p2].roomId = rid
        /\ rooms'[rid].started
        /\ rooms'[rid].turn = p1
        /\ \A p \in {p1, p2} : /\ rooms'[rid].groups[p] = None
                               /\ rooms'[rid].ball_in_hand[p] = FALSE
                               /\ rooms'[rid].shots[p] = 0
        /\ rooms'[rid].winner = None

\* C14: whatever the other tasks did at the handler's awaits, the step in which
\* the handling of a valid accept ends leaves a started match of inviter and
\* invitee, both in the room, with the game state of a new game
C14_AcceptStartsMatch ==
    [][\A c \in Conns, inv_id \in InviteIds :
          (AcceptOf(c, inv_id) /\ task'[c].pc \in {"tail", "recv", "done"})
          => MatchStarted(invites[inv_id].from, invites[inv_id].to)]_vars

\* the connections whose task, in task table tk, is inside the handling of an
\* accepted or declined invite i
HandlersOf(tk, i) ==
    { c \in Conns : tk[c].pc \in {"ans_notify", "acc_p2", "acc_end"} /\ tk[c].inv_id = i }

\* C15: an invite leaves "sent" once: to accepted or declined by its one
\* handler (which may also remove it in the same step when nothing is awaited),
\* or out of the table by a cleanup after its expiry time; a status
\* other than "sent" never changes again, the record of an answered invite
\* stays only while its one handler runs and never comes back, and a room is
\* made only by the handler of an accepted invite, one per invite
C15_SingleTransition ==
    [][/\ \A i \in InviteIds :
             /\ (i \in DOMAIN invites /\ invites[i].status = "sent")
                   => IF i \in DOMAIN invites'
                      THEN invites'[i].status \in {"sent", "accepted", "declined"}
                      ELSE \/ clock > invites[i].expires
                           \/ \E c \in Conns, accept \in BOOLEAN :
                                 /\ AnswerError(invites, i, LookupUser(c, task[c].user_id)) = None
                                 /\ RecvAnswer(c, i, accept)
             /\ (i \in DOMAIN invites /\ invites[i].status # "sent" /\ i \in DOMAIN invites')
                   => invites'[i].status = invites[i].status
             /\ (i \in issued /\ i \notin DOMAIN invites) => i \notin DOMAIN invites'
             /\ (i \in DOMAIN invites' /\ invites'[i].status # "sent")
                   => Cardinality(HandlersOf(task', i)) = 1
             /\ (i \notin DOMAIN invites' \/ invites'[i].status = "sent")
                   => HandlersOf(task', i) = {}
       /\ \A rid \in DOMAIN rooms' \ DOMAIN rooms :
             /\ DOMAIN rooms' \ DOMAIN rooms = {rid}
             /\ \E c \in Conns, i \in InviteIds :
                   /\ AcceptOf(c, i)
                   /\ HandlersOf(task, i) \subseteq {c}
                   /\ task[c].pc \in {"recv", "ans_notify"}]_vars

\* C15 witness: an accepted invite whose expiry time has passed is still in the
\* table while its handler is at a send
C15_Witness ==
    \E i \in DOMAIN invites :
        /\ invites[i].status = "accepted"
        /\ clock > invites[i].expires
        /\ HandlersOf(task, i) # {}

\* the finally block of connection c's task leaves alone every session that is
\* bound to another connection
DisconnectSpares(c) ==
    \A u \in DOMAIN users :
        users[u].ws \notin {None, c}
        => /\ users'[u].ws = users[u].ws
           /\ users'[u].status = users[u].status
           /\ users'[u].roomId = users[u].roomId

\* C16: when the rebind of a resume hello on connection c is done, the session
\* is bound to c and the connection it was bound to until then is not live;
\* and the disconnect handling of a connection never clears the handle, status
\* or room reference of a session bound to another connection
C16_RebindAuthoritative ==
    [][\A c \in Conns :
          /\ HelloRebind(c)
                => /\ users'[task[c].found_id].ws = c
                   /\ \A d \in Conns \ {c} :
                         users[task[c].found_id].ws = d => conn[d] # "open"
          /\ Disconnect(c) => DisconnectSpares(c)]_vars

\* C20: in every reachable state a session bound to no connection has status
\* lobby and no room reference
C20_DisconnectedInLobby ==
    \A u \in DOMAIN users :
        users[u].ws = None => (users[u].status = "lobby" /\ users[u].roomId = None)

----------------------------------------------------------------------------
(* A match that is in the table when the next one is made: SpecRooms       *)

\* the room of the earlier match, made from an invite handed out before
OldRoom == "r0"
OldInvite == "i0"

\* the state handle_invite_answer leaves once u1's invite to u2 is accepted and
\* both players are connected: a started room; the tasks have looked up no user yet
InitRooms ==
    /\ users = [u \in {"u1", "u2"} |->
                  [name |-> u, ws |-> (IF u = "u1" THEN "c1" ELSE "c2"),
                   status |-> "in_room", roomId |-> OldRoom, resume |-> u]]
    /\ \E rack \in Racks :
          rooms = [r \in {OldRoom} |-> start_new_game(NewRoom(users, "u1", "u2"), rack)]
    /\ invites = << >>
    /\ conn = [c \in Conns |-> "open"]
    /\ task = [c \in Conns |-> IdleTask]
    /\ clock = 0
    /\ wire = NoMsg
    /\ sent = {}
    /\ issued = {OldInvite, OldRoom}

\* the lobby's steps on the two connections, both already accepted
NextRooms ==
    \/ \E c \in Conns : ClientClose(c)
    \/ Tick
    \/ \E c \in Conns, raw \in RawNames, resume \in ResumeInputs : RecvHello(c, raw, resume)
    \/ \E c \in Conns : HelloRebind(c)
    \/ \E c \in Conns : RecvGetUsers(c)
    \/ \E c \in Conns : RecvPong(c)
    \/ \E c \in Conns, to \in UserIds : RecvInvite(c, to)
    \/ \E c \in Conns, inv_id \in InviteIds, accept \in BOOLEAN : RecvAnswer(c, inv_id, accept)
    \/ \E c \in Conns : AnswerNotified(c)
    \/ \E c \in Conns : AcceptSecond(c)
    \/ \E c \in Conns : AcceptEnd(c)
    \/ \E c \in Conns, rid \in RoomIds \cup {OldRoom} : RecvLeaveRoom(c, rid)
    \/ \E c \in Conns : LeaveSecond(c)
    \/ \E c \in Conns : LeaveEnd(c)
    \/ \E c \in Conns : HandlerTail(c)
    \/ \E c \in Conns : Disconnect(c)

SpecRooms == InitRooms /\ [][NextRooms]_vars

\* the step belongs to connection c's handling of a leave_room that a player
\* of room rid sent for it
LeaveOf(c, rid) ==
    \/ /\ rid \in DOMAIN rooms
       /\ LookupUser(c, task[c].user_id) \in { rooms[rid].players[1], rooms[rid].players[2] }
       /\ RecvLeaveRoom(c, rid)
    \/ /\ task[c].room_id = rid
       /\ (LeaveSecond(c) \/ LeaveEnd(c))

\* the step leaves alone every session whose room reference is not rid, and
\* every other room that a cleanup would keep
LeaveFrame(rid) ==
    /\ \A u \in DOMAIN users : users[u].roomId # rid => users'[u] = users[u]
    /\ \A q \in DOMAIN rooms \ {rid} :
          IF q \in DOMAIN rooms' THEN rooms'[q] = rooms[q] ELSE ~Referenced(users', rooms, q)

\* after the step room rid is gone and its two players are in the lobby with
\* no room reference
LeaveDone(rid) ==
    /\ rid \notin DOMAIN rooms'
    /\ \A i \in 1..2 : /\ users'[rooms[rid].players[i]].status = "lobby"
                       /\ users'[rooms[rid].players[i]].roomId = None

\* C17: every step of the handling of a leave_room that a player of room rid
\* sent leaves alone the sessions whose room reference is not rid and the other
\* rooms, and the step that ends the handling leaves rid out of the table and
\* both its players in the lobby with no room reference
C17_LeaveRoom ==
    [][\A c \in Conns, rid \in RoomIds \cup {OldRoom} :
          LeaveOf(c, rid)
          => /\ LeaveFrame(rid)
             /\ (task'[c].pc \in {"tail", "recv"} /\ rid \in DOMAIN rooms) => LeaveDone(rid)]_vars

====
